---- MODULE Spec2Model ----
(***************************************************************************)
(* generate_batch_sensor_data of mongodb_data_generator.py as a state      *)
(* machine: connection retries, the job record, the vectorised sensor      *)
(* simulation, the batched inserts and the final job update.               *)
(*                                                                         *)
(* Units.  The source's `duration` is a float number of minutes; here      *)
(* `duration` is held in whole seconds (sixtieths of a minute), so that    *)
(* int(duration * 60 / 5) is the truncated quotient duration / 5.          *)
(* elapsed_minutes is kept exact, as a fraction <<num, den>> of minutes.   *)
(* Every other float is held in fixed point, in thousandths (Milli), and   *)
(* each arithmetic operation rounds down to a thousandth, as each float    *)
(* operation of the source rounds to a double.                             *)
(***************************************************************************)
EXTENDS Integers, Sequences, FiniteSets, TLC

VARIABLES
    job_id, material, job_type, tool_no, duration,   \* the arguments of the call
    pc,                                         \* position in the function
    attempt,                                    \* loop variable of the retry loop
    pings,                                      \* outcome of each ping so far: "ok" / "failed"
    clients,                                    \* every MongoClient made: "open" / "closed"
    job_col, sensory_col,                       \* the two collections of the lathe
    np_random,                                  \* numpy's process-wide generator
    base_rpm, base_power, n_points,             \* locals of the simulation
    elapsed_minutes, tool_wear, current_rpm,
    current_power, workpiece_temp, vibration,
    base_time, timestamps,                      \* datetime.now() and base_time + 5 * i
    i, inserted_count,                          \* the batch loop; i is the next start
    result, error,                              \* what the call returns, and why
    runs,                                       \* two calls running in two threads
    view, selected_lathe,                       \* st.session_state of the dashboard
    api_lathes,                                 \* what GET /lathes answers
    page,                                       \* what the last script run rendered
    click,                                      \* the last button the user clicked
    rerun,                                      \* st.rerun() was called: a run is due
    fetched,                                    \* the ids get_lathe_details was called with
    sensor_stats, radar_data                    \* locals of the last script run:
                                                \* sensor_data['stats'] and the radar values

vars == << job_id, material, job_type, tool_no, duration, pc, attempt, pings, clients,
           job_col, sensory_col, np_random, base_rpm, base_power, n_points,
           elapsed_minutes, tool_wear, current_rpm, current_power,
           workpiece_temp, vibration, base_time, timestamps, i, inserted_count,
           result, error, runs, view, selected_lathe, api_lathes, page, click,
           rerun, fetched, sensor_stats, radar_data >>

\* the state of the threaded runs, and the state of the dashboard
parallel == << runs >>
frontend == << view, selected_lathe, api_lathes, page, click, rerun, fetched,
              sensor_stats, radar_data >>

-----------------------------------------------------------------------------
(* Bounds of the model *)

MaxToolNo == 2
MaxDuration == 17
MaxSigma == 40
StreamPeriod == 2
MaxLathes == 2

(* Program constants *)

max_retries == 3
batch_size == 1000
ambient_temp == 25
sample_interval == 5
Milli == 10 * 10 * 10
cooling_efficiency == 700

-----------------------------------------------------------------------------
(* Arithmetic *)

Min(a, b) == IF a <= b THEN a ELSE b
Max(a, b) == IF a >= b THEN a ELSE b

\* int(a / b) of Python for b > 0: truncation towards zero
IntTrunc(a, b) == IF a >= 0 THEN a \div b ELSE -((-a) \div b)

\* floor(a * b / c) for c > 0, without forming a * b
MulDiv(a, b, c) == (a \div c) * b + ((a % c) * b) \div c

\* a < b for fractions <<num, den>> with positive denominators
FracLess(a, b) ==
    IF a[2] = b[2] THEN a[1] < b[1] ELSE a[1] * b[2] < b[1] * a[2]

\* the fraction a as a fixed-point number of thousandths
FracMilli(a) == MulDiv(a[1], Milli, a[2])

-----------------------------------------------------------------------------
(* The lookup tables *)

Materials == {"Mild Steel", "Aluminum", "Wood"}

MATERIAL_PROFILES(m) ==
    CASE m = "Mild Steel" -> [hardness |-> 120, specific_heat |-> 460]
      [] m = "Aluminum"   -> [hardness |-> 35,  specific_heat |-> 900]
      [] m = "Wood"       -> [hardness |-> 2,   specific_heat |-> 1700]

\* wear rate in thousandths of a percent per minute
TOOL_WEAR_RATES(m) ==
    CASE m = "Mild Steel" -> 150
      [] m = "Aluminum"   -> 80
      [] m = "Wood"       -> 20

JOB_TYPES == {"turning", "facing", "threading", "drilling", "boring", "knurling"}

\* the arguments of random.randint for the material
BaseRpmRange(m) ==
    CASE m = "Mild Steel" -> [lo |-> 800,  hi |-> 1200]
      [] m = "Aluminum"   -> [lo |-> 1500, hi |-> 2500]
      [] m = "Wood"       -> [lo |-> 2800, hi |-> 3500]

\* base power per unit diameter, in thousandths of a kW
BasePowerTable(j) ==
    CASE j = "turning"   -> 3500
      [] j = "facing"    -> 4000
      [] j = "threading" -> 2800
      [] j = "drilling"  -> 5000
      [] j = "boring"    -> 3000
      [] j = "knurling"  -> 2500

\* vibration base, in thousandths
VibrationBase(m) ==
    CASE m = "Mild Steel" -> 2500
      [] m = "Aluminum"   -> 1800
      [] m = "Wood"       -> 800

-----------------------------------------------------------------------------
(* numpy's generator.  Its state is a position in a stream of standard     *)
(* normal deviates, given in standard deviations; np.random.normal(loc,    *)
(* scale, size) returns loc + scale * z for the next `size` deviates z and *)
(* moves the position on.  The stream repeats with period StreamPeriod.    *)

NoiseLevels == {-MaxSigma, 0, MaxSigma}

Streams == [0 .. StreamPeriod - 1 -> NoiseLevels]

Normal(rng, loc, scale, size) ==
    [k \in 1 .. size |-> loc + scale * rng.stream[(rng.pos + k - 1) % StreamPeriod]]

Advance(rng, size) == [rng EXCEPT !.pos = (@ + size) % StreamPeriod]

-----------------------------------------------------------------------------
(* The simulation, lines 100-143 *)

\* random.randint(lo, hi): the draws the model follows are the two ends
RandInt(range) == {range.lo, range.hi}

\* a variant that falls back to a default for an unknown key (dict.get)
calculate_machine_parameters_default(m, j, tool_diameter, r) ==
    [raised |-> "none",
     base_rpm |-> r,
     base_power |-> MulDiv(IF j \in JOB_TYPES THEN BasePowerTable(j) ELSE 3 * Milli,
                           (tool_diameter * Milli) \div 10, Milli)]

calculate_machine_parameters(m, j, tool_diameter, r) ==
    IF m \notin Materials THEN [raised |-> "KeyError", base_rpm |-> 0, base_power |-> 0]
    ELSE IF j \notin JOB_TYPES THEN [raised |-> "KeyError", base_rpm |-> 0, base_power |-> 0]
    ELSE [raised |-> "none",
          base_rpm |-> r,
          base_power |-> MulDiv(BasePowerTable(j), (tool_diameter * Milli) \div 10, Milli)]

\* a variant that always makes at least one point: max(1, int(...))
NPointsAtLeastOne(d) == Max(1, IntTrunc(d, sample_interval))

\* int(duration * 60 / 5), duration in seconds here
NPoints(d) == IntTrunc(d, sample_interval)

\* np.linspace(0, duration, num) as fractions of a minute; num >= 0
linspace(stop, num) ==
    [k \in 1 .. num |-> IF num = 1 THEN <<0, 1>> ELSE <<(k - 1) * stop, 60 * (num - 1)>>]

\* np.minimum(100, rate * elapsed * noise), one element
ToolWear(m, t, noise) ==
    Min(100 * Milli, MulDiv(MulDiv(TOOL_WEAR_RATES(m), FracMilli(t), Milli), noise, Milli))

\* a variant with the sign of the wear term flipped: 1 + wear/500
CurrentRpmWearGain(rpm0, wear, noise) ==
    Max(100 * Milli, MulDiv(rpm0 * (Milli + wear \div 500), Milli + noise, Milli))

\* np.maximum(100, base_rpm * (1 - wear/500) * (1 + noise)), one element
CurrentRpm(rpm0, wear, noise) ==
    Max(100 * Milli, MulDiv(rpm0 * (Milli - wear \div 500), Milli + noise, Milli))

\* np.maximum(0.5, base_power * (1 + wear/100 * 0.5) * (1 + noise)), one element
CurrentPower(power0, wear, noise) ==
    Max(Milli \div 2,
        MulDiv(MulDiv(power0, Milli + (wear \div 100) \div 2, Milli), Milli + noise, Milli))

\* a variant that clips at the top only: np.minimum(300, ...)
WorkpieceTempUpperOnly(m, power, t, noise) ==
    LET props == MATERIAL_PROFILES(m)
        heat_generation == (power * 8) \div 10
        joules == MulDiv(heat_generation, FracMilli(t), Milli) * 60
        temp_increase == MulDiv(joules, Milli, props.specific_heat * props.hardness)
        temp == ambient_temp * Milli
                  + MulDiv(temp_increase, Milli - cooling_efficiency, Milli) + noise
    IN  Min(300 * Milli, temp)

\* np.clip(ambient + temp_increase * (1 - cooling_efficiency) + noise, ambient, 300)
WorkpieceTemp(m, power, t, noise) ==
    LET props == MATERIAL_PROFILES(m)
        heat_generation == (power * 8) \div 10           \* watts
        joules == MulDiv(heat_generation, FracMilli(t), Milli) * 60
        temp_increase == MulDiv(joules, Milli, props.specific_heat * props.hardness)
        temp == ambient_temp * Milli
                  + MulDiv(temp_increase, Milli - cooling_efficiency, Milli) + noise
    IN  Min(300 * Milli, Max(ambient_temp * Milli, temp))

\* np.maximum(0, base * (rpm/1000) * (1 + wear/50) * (1 + noise)), one element
Vibration(m, rpm, wear, noise) ==
    Max(0, MulDiv(MulDiv(MulDiv(VibrationBase(m), rpm \div 1000, Milli),
                         Milli + wear \div 50, Milli),
                  Milli + noise, Milli))

-----------------------------------------------------------------------------
(* The calls the model follows *)

UnknownMaterial == "Nonexistent"
UnknownOperation == "milling"

ToolNos == {-6, 0} \cup (1 .. MaxToolNo)

\* seconds; 3 is shorter than one sampling interval
Durations == {-MaxDuration, -3, 0, 3, 5, 10, MaxDuration}

\* the 10-minute run, and a run of one document more than a batch
ExampleDuration == 10 * 60
LongDuration == sample_interval * (batch_size + 1)

RunInputs ==
    ((Materials \cup {UnknownMaterial})
        \X {"turning", "drilling", "knurling", UnknownOperation}
        \X ToolNos \X Durations \X {"JOB0101"})
    \cup ({"Mild Steel", "Wood"} \X {"turning"} \X {1} \X {ExampleDuration}
            \X {"JOB0101", "JOB0102"})
    \cup ({"Mild Steel"} \X {"turning"} \X {1} \X {LongDuration} \X {"JOB0102"})

\* the values datetime.now() returns on line 146, in seconds
BaseTimes == {0, 3}

\* no threaded run is under way
ParallelIdle == runs = << >>

\* the dashboard is not being served
FrontendIdle ==
    /\ view = "dashboard"
    /\ selected_lathe = "None"
    /\ api_lathes = << >>
    /\ page = [kind |-> "off", lathe |-> "None"]
    /\ click = [kind |-> "none", key |-> "", lathe |-> "None", at |-> "handled"]
    /\ rerun = FALSE
    /\ fetched = {}
    /\ sensor_stats = << >>
    /\ radar_data = << >>

Init ==
    /\ ParallelIdle
    /\ FrontendIdle
    /\ \E in \in RunInputs :
         /\ material = in[1]
         /\ job_type = in[2]
         /\ tool_no = in[3]
         /\ duration = in[4]
         /\ job_id = in[5]
    /\ pc = "connect"
    /\ attempt = 0
    /\ pings = << >>
    /\ clients = << >>
    /\ job_col = << >>
    /\ sensory_col = << >>
    /\ np_random \in [stream : Streams, pos : {0}]
    /\ base_rpm = 0
    /\ base_power = 0
    /\ n_points = 0
    /\ elapsed_minutes = << >>
    /\ tool_wear = << >>
    /\ current_rpm = << >>
    /\ current_power = << >>
    /\ workpiece_temp = << >>
    /\ vibration = << >>
    /\ base_time = 0
    /\ timestamps = << >>
    /\ i = 0
    /\ inserted_count = 0
    /\ result = "none"
    /\ error = "none"

args == << job_id, material, job_type, tool_no, duration >>
locals == << base_rpm, base_power, n_points, elapsed_minutes, tool_wear,
             current_rpm, current_power, workpiece_temp, vibration,
             base_time, timestamps >>

\* finally: client.close(), on the client the name is bound to
CloseClient(cs) ==
    IF Len(cs) = 0 THEN cs ELSE [cs EXCEPT ![Len(cs)] = "closed"]

\* except Exception as e: return "Error occurred: ..."; finally: close
Raise(e) ==
    /\ result' = "Error occurred"
    /\ error' = e
    /\ clients' = CloseClient(clients)
    /\ pc' = "done"

\* a variant without the break: a successful ping does not leave the loop
\* before its last pass
ConnectNoBreak(ok) ==
    /\ pc = "connect"
    /\ pings' = Append(pings, IF ok THEN "ok" ELSE "failed")
    /\ LET made == Append(clients, "open")
       IN  IF attempt = max_retries - 1
           THEN IF ok
                THEN /\ clients' = made
                     /\ pc' = "ensure_collections"
                     /\ UNCHANGED << attempt, result, error >>
                ELSE /\ result' = "Error occurred"
                     /\ error' = "ConnectionFailure"
                     /\ clients' = CloseClient(made)
                     /\ pc' = "done"
                     /\ UNCHANGED attempt
           ELSE /\ clients' = made
                /\ attempt' = attempt + 1
                /\ UNCHANGED << pc, result, error >>
    /\ UNCHANGED << parallel, frontend, args, locals, job_col, sensory_col, np_random, i, inserted_count >>

\* lines 61-74: one pass of the retry loop
Connect(ok) ==
    /\ pc = "connect"
    /\ pings' = Append(pings, IF ok THEN "ok" ELSE "failed")
    /\ LET made == Append(clients, "open")
       IN  IF ok
           THEN /\ clients' = made
                /\ pc' = "ensure_collections"
                /\ UNCHANGED << attempt, result, error >>
           ELSE IF attempt = max_retries - 1
           THEN /\ result' = "Error occurred"
                /\ error' = "ConnectionFailure"
                /\ clients' = CloseClient(made)
                /\ pc' = "done"
                /\ UNCHANGED attempt
           ELSE /\ clients' = made
                /\ attempt' = attempt + 1
                /\ UNCHANGED << pc, result, error >>
    /\ UNCHANGED << parallel, frontend, args, locals, job_col, sensory_col, np_random, i, inserted_count >>

\* lines 76-79: get_database and ensure_collections_exist
EnsureCollections(ok) ==
    /\ pc = "ensure_collections"
    /\ IF ok
       THEN pc' = "insert_job" /\ UNCHANGED << clients, result, error >>
       ELSE Raise("OperationFailure")
    /\ UNCHANGED << parallel, frontend, args, locals, attempt, pings, job_col, sensory_col, np_random,
                    i, inserted_count >>

\* lines 81-98: the job record
InsertJob(ok) ==
    /\ pc = "insert_job"
    /\ IF ok
       THEN /\ job_col' = Append(job_col, [JobID |-> job_id, Status |-> "Running",
                                            FinalToolWear |-> 0])
            /\ pc' = "simulate"
            /\ UNCHANGED << clients, result, error >>
       ELSE /\ Raise("InsertJobError")
            /\ UNCHANGED job_col
    /\ UNCHANGED << parallel, frontend, args, locals, attempt, pings, sensory_col, np_random, i, inserted_count >>

\* a variant that counts from 1: range(1, n_points + 1)
TimestampsFromOne(now, n) == [k \in 1 .. n |-> now + 5 * k]

\* [base_time + timedelta(seconds=5*i) for i in range(n_points)], line 147
Timestamps(now, n) == [k \in 1 .. n |-> now + 5 * (k - 1)]

\* lines 100-165: parameters, the time vector, the five sensor vectors and
\* the documents zipped from them (document k is the k-th entry of each)
Simulate ==
    /\ pc = "simulate"
    /\ \E r \in (IF material \in Materials THEN RandInt(BaseRpmRange(material)) ELSE {0}),
          now \in BaseTimes :
         LET tool_diameter == 10 + tool_no * 2
             params == calculate_machine_parameters(material, job_type, tool_diameter, r)
             n == NPoints(duration)
             e == linspace(duration, n)
             rng1 == Advance(np_random, n)
             rng2 == Advance(rng1, n)
             rng3 == Advance(rng2, n)
             rng4 == Advance(rng3, n)
             wear_noise == Normal(np_random, Milli, 50, n)
             rpm_noise == Normal(rng1, 0, 30, n)
             power_noise == Normal(rng2, 0, 50, n)
             temp_noise == Normal(rng3, 0, 2 * Milli, n)
             vib_noise == Normal(rng4, 0, 100, n)
             wear == [k \in 1 .. n |-> ToolWear(material, e[k], wear_noise[k])]
             rpm == [k \in 1 .. n |-> CurrentRpm(params.base_rpm, wear[k], rpm_noise[k])]
             power == [k \in 1 .. n |->
                          CurrentPower(params.base_power, wear[k], power_noise[k])]
         IN  IF params.raised # "none"
             THEN /\ Raise(params.raised)
                  /\ UNCHANGED << locals, np_random, i >>
             ELSE IF n < 0
             THEN \* np.linspace: "Number of samples must be non-negative"
                  /\ Raise("ValueError")
                  /\ base_rpm' = params.base_rpm
                  /\ base_power' = params.base_power
                  /\ n_points' = n
                  /\ UNCHANGED << elapsed_minutes, tool_wear, current_rpm, current_power,
                                  workpiece_temp, vibration, base_time, timestamps,
                                  np_random, i >>
             ELSE IF material \notin Materials
             THEN \* TOOL_WEAR_RATES[material], line 113
                  /\ Raise("KeyError")
                  /\ base_rpm' = params.base_rpm
                  /\ base_power' = params.base_power
                  /\ n_points' = n
                  /\ elapsed_minutes' = e
                  /\ UNCHANGED << tool_wear, current_rpm, current_power,
                                  workpiece_temp, vibration, base_time, timestamps,
                                  np_random, i >>
             ELSE /\ base_rpm' = params.base_rpm
                  /\ base_power' = params.base_power
                  /\ n_points' = n
                  /\ elapsed_minutes' = e
                  /\ tool_wear' = wear
                  /\ current_rpm' = rpm
                  /\ current_power' = power
                  /\ workpiece_temp' =
                        [k \in 1 .. n |-> WorkpieceTemp(material, power[k], e[k], temp_noise[k])]
                  /\ vibration' =
                        [k \in 1 .. n |-> Vibration(material, rpm[k], wear[k], vib_noise[k])]
                  /\ np_random' = Advance(rng4, n)
                  /\ base_time' = now
                  /\ timestamps' = Timestamps(now, n)
                  /\ i' = 0
                  /\ pc' = IF 0 < n THEN "insert_batch" ELSE "update_job"
                  /\ UNCHANGED << clients, result, error >>
    /\ UNCHANGED << parallel, frontend, args, attempt, pings, job_col, sensory_col, inserted_count >>

\* a variant whose slice is one document too long: documents[i:i + batch_size + 1]
BatchOverlap(from, len) ==
    [k \in 1 .. (Min(from + batch_size + 1, len) - from) |-> from + k - 1]

\* documents[i:i + batch_size], as the 0-based indexes of the documents
Batch(from, len) ==
    [k \in 1 .. (Min(from + batch_size, len) - from) |-> from + k - 1]

\* the document zipped from the k-th entries (k counted from 0), lines 151-165
Document(k) == [index |-> k, JobID |-> job_id, timestamp |-> timestamps[k + 1]]

\* a variant that swallows the exception of insert_many and goes on with the
\* next batch
InsertBatchContinue(ok) ==
    /\ pc = "insert_batch"
    /\ i < n_points
    /\ IF ok
       THEN /\ sensory_col' = sensory_col \o
                    [k \in 1 .. Len(Batch(i, n_points)) |-> Document(Batch(i, n_points)[k])]
            /\ inserted_count' = inserted_count + Len(Batch(i, n_points))
       ELSE UNCHANGED << sensory_col, inserted_count >>
    /\ i' = i + batch_size
    /\ pc' = IF i + batch_size < n_points THEN "insert_batch" ELSE "update_job"
    /\ UNCHANGED << clients, result, error >>
    /\ UNCHANGED << parallel, frontend, args, locals, attempt, pings, job_col, np_random >>

\* lines 169-176: one pass of the insert loop
InsertBatch(ok) ==
    /\ pc = "insert_batch"
    /\ i < n_points
    /\ IF ok
       THEN /\ sensory_col' = sensory_col \o
                    [k \in 1 .. Len(Batch(i, n_points)) |-> Document(Batch(i, n_points)[k])]
            /\ inserted_count' = inserted_count + Len(Batch(i, n_points))
            /\ i' = i + batch_size
            /\ pc' = IF i + batch_size < n_points THEN "insert_batch" ELSE "update_job"
            /\ UNCHANGED << clients, result, error >>
       ELSE /\ Raise("BulkWriteError")
            /\ UNCHANGED << sensory_col, inserted_count, i >>
    /\ UNCHANGED << parallel, frontend, args, locals, attempt, pings, job_col, np_random >>

\* tool_wear[-1], which raises IndexError on an empty vector
LastRaises(v) == Len(v) = 0

\* lines 178-194: the job update, the return and the finally clause
UpdateJob(ok) ==
    /\ pc = "update_job"
    /\ IF LastRaises(tool_wear)
       THEN /\ Raise("IndexError")
            /\ UNCHANGED job_col
       ELSE IF ok
       THEN /\ job_col' = [k \in 1 .. Len(job_col) |->
                              IF job_col[k].JobID = job_id
                              THEN [JobID |-> job_id,
                                    Status |-> "Completed",
                                    FinalToolWear |-> tool_wear[Len(tool_wear)],
                                    EndTime |-> timestamps[Len(timestamps)]]
                              ELSE job_col[k]]
            /\ result' = "Successfully generated"
            /\ clients' = CloseClient(clients)
            /\ pc' = "done"
            /\ UNCHANGED error
       ELSE /\ Raise("UpdateError")
            /\ UNCHANGED job_col
    /\ UNCHANGED << parallel, frontend, args, locals, attempt, pings, sensory_col, np_random, i, inserted_count >>

Next ==
    \/ \E ok \in BOOLEAN : Connect(ok)
    \/ \E ok \in BOOLEAN : EnsureCollections(ok)
    \/ \E ok \in BOOLEAN : InsertJob(ok)
    \/ Simulate
    \/ \E ok \in BOOLEAN : InsertBatch(ok)
    \/ \E ok \in BOOLEAN : UpdateJob(ok)

Spec == Init /\ [][Next]_vars

-----------------------------------------------------------------------------
(* Two calls of generate_batch_sensor_data in two threads of one process.  *)
(* np.random.normal draws from numpy's process-wide generator, so the      *)
(* calls share np_random; a thread may be preempted between any two of its *)
(* five draws.  Each call's own random.randint draw is a free choice, and  *)
(* the call is compared with itself alone under the same choice.           *)

\* no call of the single-run machine is under way
GeneratorIdle ==
    /\ job_id = "" /\ material = "" /\ job_type = "" /\ tool_no = 0 /\ duration = 0
    /\ pc = "idle"
    /\ attempt = 0
    /\ pings = << >>
    /\ clients = << >>
    /\ job_col = << >>
    /\ sensory_col = << >>
    /\ base_rpm = 0
    /\ base_power = 0
    /\ n_points = 0
    /\ elapsed_minutes = << >>
    /\ tool_wear = << >>
    /\ current_rpm = << >>
    /\ current_power = << >>
    /\ workpiece_temp = << >>
    /\ vibration = << >>
    /\ base_time = 0
    /\ timestamps = << >>
    /\ i = 0
    /\ inserted_count = 0
    /\ result = "none"
    /\ error = "none"

generator == << args, locals, pc, attempt, pings, clients, job_col, sensory_col,
                i, inserted_count, result, error >>

\* the lathes of the two calls
RunIds == {1, 2}

\* material, job_type, tool_no, duration (seconds) of a threaded call
ParArgs == {"Mild Steel", "Wood"} \X {"turning"} \X {1} \X {5, 10}

\* the frame of a call that has not started
NewRun(a) ==
    [material |-> a[1], job_type |-> a[2], tool_no |-> a[3], duration |-> a[4],
     at |-> "call", start |-> [stream |-> << >>, pos |-> 0],
     base_rpm |-> 0, base_power |-> 0, n_points |-> 0,
     tool_wear |-> << >>, current_rpm |-> << >>, current_power |-> << >>,
     workpiece_temp |-> << >>, vibration |-> << >>]

\* lines 111-114, with the deviates drawn from rng
WearOf(run, rng) ==
    LET n == run.n_points
        e == linspace(run.duration, n)
        noise == Normal(rng, Milli, 50, n)
    IN  [k \in 1 .. n |-> ToolWear(run.material, e[k], noise[k])]

\* lines 117-119
RpmOf(run, rng) ==
    LET n == run.n_points
        noise == Normal(rng, 0, 30, n)
    IN  [k \in 1 .. n |-> CurrentRpm(run.base_rpm, run.tool_wear[k], noise[k])]

\* lines 122-125
PowerOf(run, rng) ==
    LET n == run.n_points
        noise == Normal(rng, 0, 50, n)
    IN  [k \in 1 .. n |-> CurrentPower(run.base_power, run.tool_wear[k], noise[k])]

\* lines 128-133
TempOf(run, rng) ==
    LET n == run.n_points
        e == linspace(run.duration, n)
        noise == Normal(rng, 0, 2 * Milli, n)
    IN  [k \in 1 .. n |->
            WorkpieceTemp(run.material, run.current_power[k], e[k], noise[k])]

\* lines 136-143
VibOf(run, rng) ==
    LET n == run.n_points
        noise == Normal(rng, 0, 100, n)
    IN  [k \in 1 .. n |->
            Vibration(run.material, run.current_rpm[k], run.tool_wear[k], noise[k])]

InitPar ==
    /\ GeneratorIdle
    /\ FrontendIdle
    /\ np_random \in [stream : Streams, pos : {0}]
    /\ runs \in [RunIds -> {NewRun(a) : a \in ParArgs}]

\* lines 100-108 of call r: the parameters and the number of points
CallParams(r) ==
    /\ runs[r].at = "call"
    /\ \E rpm0 \in RandInt(BaseRpmRange(runs[r].material)) :
         LET run == runs[r]
             params == calculate_machine_parameters(run.material, run.job_type,
                                                    10 + run.tool_no * 2, rpm0)
         IN  runs' = [runs EXCEPT ![r] =
                         [run EXCEPT !.at = "wear",
                                     !.start = np_random,
                                     !.base_rpm = params.base_rpm,
                                     !.base_power = params.base_power,
                                     !.n_points = NPoints(run.duration)]]
    /\ UNCHANGED << generator, np_random, frontend >>

\* line 113 of call r: the draw of the wear noise
DrawWear(r) ==
    /\ runs[r].at = "wear"
    /\ runs' = [runs EXCEPT ![r] =
                   [@ EXCEPT !.at = "rpm", !.tool_wear = WearOf(runs[r], np_random)]]
    /\ np_random' = Advance(np_random, runs[r].n_points)
    /\ UNCHANGED << generator, frontend >>

\* line 117 of call r
DrawRpm(r) ==
    /\ runs[r].at = "rpm"
    /\ runs' = [runs EXCEPT ![r] =
                   [@ EXCEPT !.at = "power", !.current_rpm = RpmOf(runs[r], np_random)]]
    /\ np_random' = Advance(np_random, runs[r].n_points)
    /\ UNCHANGED << generator, frontend >>

\* line 123 of call r
DrawPower(r) ==
    /\ runs[r].at = "power"
    /\ runs' = [runs EXCEPT ![r] =
                   [@ EXCEPT !.at = "temp", !.current_power = PowerOf(runs[r], np_random)]]
    /\ np_random' = Advance(np_random, runs[r].n_points)
    /\ UNCHANGED << generator, frontend >>

\* line 133 of call r
DrawTemp(r) ==
    /\ runs[r].at = "temp"
    /\ runs' = [runs EXCEPT ![r] =
                   [@ EXCEPT !.at = "vib", !.workpiece_temp = TempOf(runs[r], np_random)]]
    /\ np_random' = Advance(np_random, runs[r].n_points)
    /\ UNCHANGED << generator, frontend >>

\* line 142 of call r
DrawVib(r) ==
    /\ runs[r].at = "vib"
    /\ runs' = [runs EXCEPT ![r] =
                   [@ EXCEPT !.at = "done", !.vibration = VibOf(runs[r], np_random)]]
    /\ np_random' = Advance(np_random, runs[r].n_points)
    /\ UNCHANGED << generator, frontend >>

NextPar ==
    \/ \E r \in RunIds : CallParams(r)
    \/ \E r \in RunIds : DrawWear(r)
    \/ \E r \in RunIds : DrawRpm(r)
    \/ \E r \in RunIds : DrawPower(r)
    \/ \E r \in RunIds : DrawTemp(r)
    \/ \E r \in RunIds : DrawVib(r)

SpecPar == InitPar /\ [][NextPar]_vars

-----------------------------------------------------------------------------
(* The dashboard of streamlit_frontend.py.  Streamlit runs main() from the *)
(* top on every event: a click on a button makes one script run in which   *)
(* st.button returns True for that button (matched by its key), and        *)
(* st.rerun() ends the run and starts another.  st.session_state survives  *)
(* the runs.  The answer of GET /lathes is one list for the session.       *)

\* lathe.get('lathe_id'): "None" is a missing key (None), "0" the integer 0,
\* "" the empty string, "1" and "2" the integers 1 and 2
LatheIds == {"None", "0", "", "1", "2"}

\* `not v` of python for these values
Falsy(v) == v \in {"None", "0", ""}

Digits == << "0", "1", "2", "3" >>

\* the key of a card's button: f"btn_{lathe.get('lathe_id', idx)}", idx from 0
ButtonKey(lathe, idx) == IF lathe = "None" THEN Digits[idx + 1] ELSE lathe

\* the lists GET /lathes may answer (each lathe by its lathe_id), the empty
\* list of a failed request included; Streamlit rejects two buttons of one
\* key, so the keys of a list differ
ApiLists ==
    { L \in UNION { [1 .. n -> LatheIds] : n \in 0 .. MaxLathes } :
        \A a, b \in 1 .. Len(L) :
            a # b => ButtonKey(L[a], a - 1) # ButtonKey(L[b], b - 1) }

valid_params == << "Temperature", "Vibration", "RPM", "Power", "ToolWear" >>

\* dict.get(key, default)
Get(d, key, default) == IF key \in DOMAIN d THEN d[key] ELSE default

\* the entries of sensor_data['stats']: any of min, max, avg present, the
\* present ones in order min <= avg <= max
StatEntries ==
    { e \in UNION { [D -> {0, 20, 40}] : D \in SUBSET {"min", "max", "avg"} } :
        /\ ("min" \in DOMAIN e /\ "avg" \in DOMAIN e) => e["min"] <= e["avg"]
        /\ ("avg" \in DOMAIN e /\ "max" \in DOMAIN e) => e["avg"] <= e["max"]
        /\ ("min" \in DOMAIN e /\ "max" \in DOMAIN e) => e["min"] <= e["max"] }

\* the stats the model follows: none, one parameter, two parameters, one of
\* them not a radar parameter
StatsInputs ==
    UNION { [P -> StatEntries] : P \in {{}, {"Temperature"}, {"ToolWear", "Humidity"}} }

\* lines 421-429, the quotient kept exact as << numerator, denominator >>
Normalize(entry) ==
    LET min_val == Get(entry, "min", 0)
        max_val == Get(entry, "max", 1)
        avg_val == Get(entry, "avg", 0)
    IN  IF max_val # min_val
        THEN << avg_val - min_val, max_val - min_val >>
        ELSE << 1, 2 >>

\* lines 416-431: radar_data
RadarData(stats) ==
    [param \in { valid_params[k] : k \in 1 .. Len(valid_params) } \cap DOMAIN stats |->
        Normalize(stats[param])]

InitUI ==
    /\ GeneratorIdle
    /\ ParallelIdle
    /\ np_random = [stream |-> [k \in 0 .. StreamPeriod - 1 |-> 0], pos |-> 0]
    /\ view = "dashboard"
    /\ selected_lathe = "None"
    /\ api_lathes \in ApiLists
    /\ page = [kind |-> "off", lathe |-> "None"]
    /\ click = [kind |-> "none", key |-> "", lathe |-> "None", at |-> "handled"]
    /\ rerun = FALSE
    /\ fetched = {}
    /\ sensor_stats = << >>
    /\ radar_data = << >>

\* a script run is due: the first one, one after a click, one after st.rerun()
RunDue == page.kind = "off" \/ rerun \/ click.at = "pending"

\* the user clicks View Details on the card at idx of the dashboard shown
ClickViewDetails(idx) ==
    /\ ~RunDue
    /\ page.kind = "dashboard"
    /\ idx \in 0 .. Len(api_lathes) - 1
    /\ click' = [kind |-> "view", key |-> ButtonKey(api_lathes[idx + 1], idx),
                 lathe |-> api_lathes[idx + 1], at |-> "pending"]
    /\ UNCHANGED << generator, np_random, parallel, view, selected_lathe, api_lathes,
                    page, rerun, fetched, sensor_stats, radar_data >>

\* the user clicks the back button of the details page shown
ClickBack ==
    /\ ~RunDue
    /\ page.kind \in {"no_data", "details"}
    /\ click' = [kind |-> "back",
                 key |-> IF page.kind = "no_data" THEN "Back to Dashboard" ELSE "Back",
                 lathe |-> "None", at |-> "pending"]
    /\ UNCHANGED << generator, np_random, parallel, view, selected_lathe, api_lathes,
                    page, rerun, fetched, sensor_stats, radar_data >>

\* main (lines 623-631) dispatching to show_dashboard (lines 145-185): the
\* warning of an empty list, or the cards; the first button that was
\* clicked selects its lathe and calls st.rerun()
show_dashboard ==
    /\ RunDue
    /\ view = "dashboard"
    /\ LET hit == { idx \in 0 .. Len(api_lathes) - 1 :
                      /\ click.at = "pending"
                      /\ click.kind = "view"
                      /\ ButtonKey(api_lathes[idx + 1], idx) = click.key }
           first == CHOOSE idx \in hit : \A other \in hit : idx <= other
       IN  IF hit = {}
           THEN /\ page' = [kind |-> IF api_lathes = << >> THEN "empty" ELSE "dashboard",
                            lathe |-> "None"]
                /\ rerun' = FALSE
                /\ UNCHANGED << view, selected_lathe >>
           ELSE /\ selected_lathe' = api_lathes[first + 1]
                /\ view' = "lathe_details"
                /\ rerun' = TRUE
                /\ UNCHANGED page
    /\ click' = [click EXCEPT !.at = "handled"]
    /\ sensor_stats' = << >>
    /\ radar_data' = << >>
    /\ UNCHANGED << generator, np_random, parallel, api_lathes, fetched >>

\* main dispatching to show_lathe_details (lines 187-431): no selection
\* returns to the dashboard; else the details are fetched, and either the
\* warning with its back button or the page with its back button and the
\* radar values is rendered
show_lathe_details ==
    /\ RunDue
    /\ view = "lathe_details"
    /\ IF Falsy(selected_lathe)
       THEN /\ view' = "dashboard"
            /\ rerun' = TRUE
            /\ sensor_stats' = << >>
            /\ radar_data' = << >>
            /\ UNCHANGED << page, fetched >>
       ELSE /\ fetched' = fetched \cup {selected_lathe}
            /\ \E lathe_details \in BOOLEAN :
                 LET back == IF lathe_details THEN "Back" ELSE "Back to Dashboard"
                 IN  IF click.at = "pending" /\ click.key = back
                     THEN /\ view' = "dashboard"
                          /\ rerun' = TRUE
                          /\ sensor_stats' = << >>
                          /\ radar_data' = << >>
                          /\ UNCHANGED page
                     ELSE IF ~lathe_details
                     THEN /\ page' = [kind |-> "no_data", lathe |-> selected_lathe]
                          /\ rerun' = FALSE
                          /\ sensor_stats' = << >>
                          /\ radar_data' = << >>
                          /\ UNCHANGED view
                     ELSE /\ \E stats \in StatsInputs :
                               /\ sensor_stats' = stats
                               /\ radar_data' = RadarData(stats)
                          /\ page' = [kind |-> "details", lathe |-> selected_lathe]
                          /\ rerun' = FALSE
                          /\ UNCHANGED view
    /\ click' = [click EXCEPT !.at = "handled"]
    /\ UNCHANGED << generator, np_random, parallel, selected_lathe, api_lathes >>

NextUI ==
    \/ \E idx \in 0 .. MaxLathes - 1 : ClickViewDetails(idx)
    \/ ClickBack
    \/ show_dashboard
    \/ show_lathe_details

SpecUI == InitUI /\ [][NextUI]_vars

-----------------------------------------------------------------------------
(* Vocabulary of the claims *)

ValidInput ==
    /\ material \in Materials
    /\ job_type \in JOB_TYPES
    /\ tool_no > 0
    /\ duration > 0

\* the exceptions of the database driver, as against those of the simulation
DbErrors ==
    {"ConnectionFailure", "OperationFailure", "InsertJobError", "BulkWriteError",
     "UpdateError"}

Succeeded == result = "Successfully generated"
Failed == result = "Error occurred"

\* the sensor vectors hold no sample
NoSample ==
    /\ tool_wear = << >>
    /\ current_rpm = << >>
    /\ current_power = << >>
    /\ workpiece_temp = << >>
    /\ vibration = << >>

\* every draw of the stream is the mean: wear noise 1, every other noise 0
NeutralNoise == \A p \in DOMAIN np_random.stream : np_random.stream[p] = 0

-----------------------------------------------------------------------------
(* C1.  For every valid input a run (one that no database operation      *)
(* fails) succeeds and produces exactly floor(duration * 60 / 5) samples, *)
(* also for a positive duration shorter than one sampling interval.       *)
C1_ValidRunSucceeds ==
    (pc = "done" /\ ValidInput /\ error \notin DbErrors)
        => /\ Succeeded
           /\ Len(tool_wear) = duration \div sample_interval
           /\ Len(sensory_col) = duration \div sample_interval
           /\ inserted_count = duration \div sample_interval

(* C2.  elapsedMinutes starts at 0, is strictly increasing, and sample i  *)
(* (counted from 0) has elapsedMinutes = i * 5 / 60, its timestamp offset *)
(* of 5 * i seconds.  Stated of the runs with valid arguments, which the  *)
(* claim's "every produced sequence" includes.                             *)
C2_ElapsedStep ==
    ValidInput => \A k \in 1 .. Len(elapsed_minutes) :
        /\ k = 1 => elapsed_minutes[k][1] = 0
        /\ k > 1 => FracLess(elapsed_minutes[k - 1], elapsed_minutes[k])
        /\ elapsed_minutes[k][1] * 60 = sample_interval * (k - 1) * elapsed_minutes[k][2]

(* C3.  Every tool wear sample lies between 0 and 100 percent, whatever   *)
(* the noise draw is.  Stated of the runs with valid arguments, which the *)
(* claim's "every run" includes.                                           *)
C3_WearInRange ==
    ValidInput => \A k \in 1 .. Len(tool_wear) : 0 <= tool_wear[k] /\ tool_wear[k] <= 100 * Milli

(* C4.  In every sample, whatever the noise draws, the tool wear, the     *)
(* base RPM and the base power are: rpm >= 100, powerKw >= 0.5,           *)
(* 25 <= temperatureC <= 300 and vibration >= 0.                          *)
C4_ClampedFields ==
    /\ \A k \in 1 .. Len(current_rpm) : current_rpm[k] >= 100 * Milli
    /\ \A k \in 1 .. Len(current_power) : 2 * current_power[k] >= Milli
    /\ \A k \in 1 .. Len(workpiece_temp) :
          /\ 25 * Milli <= workpiece_temp[k]
          /\ workpiece_temp[k] <= 300 * Milli
    /\ \A k \in 1 .. Len(vibration) : vibration[k] >= 0

\* a run whose base power and a wear sample are negative, and in which each
\* of the five clamps decides a sample
C4_Witness ==
    /\ base_power < 0
    /\ \E k \in 1 .. Len(tool_wear) :
          /\ tool_wear[k] < 0
          /\ 2 * current_power[k] = Milli
    /\ \E k \in 1 .. Len(current_rpm) :
          current_rpm[k] = 100 * Milli /\ vibration[k] = 0
    /\ \E k \in 1 .. Len(workpiece_temp) : workpiece_temp[k] = 25 * Milli

\* the upper end of the temperature clip decides a sample
C4_WitnessHot ==
    \E k \in 1 .. Len(workpiece_temp) :
        workpiece_temp[k] = 300 * Milli /\ current_power[k] > Milli

(* C5.  With every noise draw neutral, wear is non-decreasing over the    *)
(* samples in order of elapsed time, and rpm is non-increasing as wear    *)
(* increases (base_rpm is fixed within a run): along the samples wear     *)
(* never falls, rpm never rises, and equal wear gives equal rpm.          *)
C5_NeutralMonotone ==
    NeutralNoise =>
        \A k \in 1 .. Len(tool_wear) - 1 :
            /\ tool_wear[k] <= tool_wear[k + 1]
            /\ current_rpm[k] >= current_rpm[k + 1]
            /\ tool_wear[k] = tool_wear[k + 1] => current_rpm[k] = current_rpm[k + 1]

\* a neutral run in which wear rises and rpm falls from one sample to the next
C5_Witness ==
    /\ NeutralNoise
    /\ \E k \in 1 .. Len(tool_wear) - 1 :
          tool_wear[k] < tool_wear[k + 1] /\ current_rpm[k] > current_rpm[k + 1]

(* C6.  A run whose material or operation is unknown is rejected before   *)
(* any sampling begins: it never succeeds, no sensor sample of it is ever *)
(* computed or persisted, and once the job record is in, it ends with the *)
(* KeyError of the lookup.                                                 *)
C6_UnknownRejected ==
    (material \notin Materials \/ job_type \notin JOB_TYPES)
        => /\ NoSample
           /\ sensory_col = << >>
           /\ ~Succeeded
           /\ (pc = "done" /\ error \notin DbErrors) => (Failed /\ error = "KeyError")

\* a run with a known material and an unknown operation has been rejected
C6_Witness ==
    /\ pc = "done"
    /\ material \in Materials
    /\ job_type = UnknownOperation
    /\ tool_no > 0
    /\ duration > sample_interval
    /\ error = "KeyError"

(* C7.  Every input-validation failure (unknown material or operation,    *)
(* non-positive duration or tool index) is raised before generation       *)
(* starts and leaves the state unchanged: the run ends with an error and  *)
(* nothing has been written for it, no job record and no sensor sample.   *)
C7_ValidationWritesNothing ==
    (pc = "done" /\ ~ValidInput)
        => /\ Failed
           /\ job_col = << >>
           /\ sensory_col = << >>

(* C8.  A run with a non-positive duration fails with an error: it never  *)
(* reports success, never marks its job Completed, and ends with the      *)
(* error result.                                                           *)
C8_NonPositiveDurationFails ==
    duration <= 0
        => /\ ~Succeeded
           /\ \A k \in 1 .. Len(job_col) : job_col[k].Status # "Completed"
           /\ pc = "done" => Failed

\* a run of duration zero, with valid arguments otherwise, has reached the
\* job update with every database operation done, and has ended in error
C8_Witness ==
    /\ pc = "done"
    /\ duration = 0
    /\ material \in Materials /\ job_type \in JOB_TYPES /\ tool_no > 0
    /\ error = "IndexError"
    /\ Failed

(* C9.  A run with a non-positive tool index fails with an error instead  *)
(* of producing samples.                                                   *)
C9_NonPositiveToolFails ==
    tool_no <= 0
        => /\ NoSample
           /\ ~Succeeded

(* C10.  Whenever a run ends with an error, none of its sensor samples    *)
(* remain persisted.  Stated of the runs with valid arguments, which the  *)
(* claim's "whenever" includes.                                            *)
C10_NoPartialResults ==
    (pc = "done" /\ ValidInput /\ Failed) => sensory_col = << >>

(* C12.  The persisted samples of a job carry strictly increasing         *)
(* timestamps: sample i (counted from 0) has timestamp base_time + 5 * i  *)
(* seconds, every document carries the job's JobID, and the EndTime of a  *)
(* completed job is the timestamp of the last sample.                     *)
C12_Timestamps ==
    /\ \A k \in 1 .. Len(sensory_col) :
          /\ sensory_col[k].timestamp = base_time + 5 * sensory_col[k].index
          /\ sensory_col[k].JobID = job_id
          /\ k > 1 => sensory_col[k - 1].timestamp < sensory_col[k].timestamp
    /\ \A k \in 1 .. Len(job_col) :
          job_col[k].Status = "Completed"
              => /\ job_col[k].JobID = job_id
                 /\ job_col[k].EndTime = sensory_col[Len(sensory_col)].timestamp
                 /\ job_col[k].EndTime = base_time + 5 * (n_points - 1)

\* a completed job of more than one batch, started at a base time other than 0
C12_Witness ==
    /\ Succeeded
    /\ base_time > 0
    /\ Len(sensory_col) > batch_size
    /\ job_col[1].EndTime = base_time + 5 * batch_size

(* C13.  The connection is attempted at most 3 times, a new attempt is    *)
(* made only after the previous one failed, no attempt follows a          *)
(* successful ping, and a run whose 3 attempts all failed ends with the   *)
(* error result, having inserted no job record and no sensor document.    *)
C13_ConnectionRetries ==
    /\ Len(pings) <= max_retries
    /\ Len(clients) = Len(pings)
    /\ \A k \in 1 .. Len(pings) - 1 : pings[k] = "failed"
    /\ (Len(pings) = max_retries /\ pings[max_retries] = "failed")
          => /\ pc = "done"
             /\ Failed
             /\ error = "ConnectionFailure"
             /\ job_col = << >>
             /\ sensory_col = << >>

\* a run that connected at its third attempt and went on to insert documents
C13_Witness ==
    /\ pings = << "failed", "failed", "ok" >>
    /\ sensory_col # << >>

\* a run whose three attempts failed
C13_WitnessExhausted ==
    /\ pings = << "failed", "failed", "failed" >>
    /\ pc = "done"

(* C14.  The documents are written in timestamp order in consecutive      *)
(* batches of at most 1000: what has been inserted is always documents    *)
(* 0, 1, ... in order, each once, up to the start of the next batch, each *)
(* insert adds at most 1000, and the count reported on success is n.      *)
C14_Batches ==
    /\ [](/\ \A k \in 1 .. Len(sensory_col) : sensory_col[k].index = k - 1
          /\ Len(sensory_col) = inserted_count
          /\ inserted_count = Min(i, Max(n_points, 0))
          /\ Succeeded => inserted_count = n_points)
    /\ [][Len(sensory_col') - Len(sensory_col) <= batch_size]_vars

\* a successful run of two batches, the second of one document
C14_Witness ==
    /\ Succeeded
    /\ inserted_count = batch_size + 1
    /\ sensory_col[batch_size + 1].index = batch_size

(* C16.  Job lifecycle: sensor documents are only ever inserted while the *)
(* job's record exists with Status 'Running'; a record is 'Completed'     *)
(* only when all n documents of the job are in the collection; a run that *)
(* fails after inserting the record leaves it 'Running'.                  *)
C16_JobLifecycle ==
    /\ [](/\ \A k \in 1 .. Len(job_col) :
                /\ job_col[k].JobID = job_id
                /\ job_col[k].Status \in {"Running", "Completed"}
                /\ job_col[k].Status = "Completed"
                      => /\ n_points >= 1
                         /\ Len(sensory_col) = n_points
                         /\ \A d \in 1 .. n_points : sensory_col[d].JobID = job_id
          /\ sensory_col # << >> => job_col # << >>
          /\ Failed => \A k \in 1 .. Len(job_col) : job_col[k].Status = "Running")
    /\ [][sensory_col' # sensory_col
             => /\ Len(job_col) = 1
                /\ job_col[1].JobID = job_id
                /\ job_col[1].Status = "Running"]_vars

\* a run that failed in its second batch: the record is left 'Running' with
\* the first batch in the collection
C16_Witness ==
    /\ Failed
    /\ error = "BulkWriteError"
    /\ Len(sensory_col) = batch_size
    /\ job_col[1].Status = "Running"

\* a completed job with all its documents
C16_WitnessCompleted ==
    /\ job_col # << >>
    /\ job_col[1].Status = "Completed"
    /\ Len(sensory_col) = n_points

(* C17.  Every client opened has been closed by the time the function     *)
(* returns, on every path, the path on which the connection succeeded     *)
(* only after failed attempts included.  Stated of the runs with valid    *)
(* arguments.                                                             *)
C17_AllClientsClosed ==
    (ValidInput /\ pc = "done") => \A k \in 1 .. Len(clients) : clients[k] = "closed"

\* the samples of a call
Samples(run) ==
    << run.tool_wear, run.current_rpm, run.current_power, run.workpiece_temp,
       run.vibration >>

\* the call run alone: its five draws follow one another from its starting
\* state of the generator
Alone(run) ==
    LET n == run.n_points
        g1 == Advance(run.start, n)
        g2 == Advance(g1, n)
        g3 == Advance(g2, n)
        g4 == Advance(g3, n)
        a1 == [run EXCEPT !.tool_wear = WearOf(run, run.start)]
        a2 == [a1 EXCEPT !.current_rpm = RpmOf(a1, g1)]
        a3 == [a2 EXCEPT !.current_power = PowerOf(a2, g2)]
        a4 == [a3 EXCEPT !.workpiece_temp = TempOf(a3, g3)]
    IN  [a4 EXCEPT !.vibration = VibOf(a4, g4)]

(* C11.  Independent runs share no mutable state: the samples a call      *)
(* produces with its steps interleaved with another call's are the        *)
(* samples it produces alone from the same starting state of the random   *)
(* source.                                                                *)
C11_SameAsAlone ==
    \A r \in DOMAIN runs :
        runs[r].at = "done" => Samples(runs[r]) = Samples(Alone(runs[r]))

\* a quotient << numerator, denominator >> lies in [0, 1]
InUnit(q) ==
    IF q[2] > 0 THEN 0 <= q[1] /\ q[1] <= q[2] ELSE q[2] <= q[1] /\ q[1] <= 0

(* C15.  The radar normalisation maps every available parameter, whatever *)
(* of min, max, avg its entry holds (defaults 0, 1, 0), to a value in     *)
(* [0, 1], and to 0.5 when max equals min.                                *)
C15_RadarInUnit ==
    \A param \in DOMAIN radar_data :
        /\ InUnit(radar_data[param])
        /\ Get(sensor_stats[param], "max", 1) = Get(sensor_stats[param], "min", 0)
              => radar_data[param] = << 1, 2 >>

(* C18.  Dashboard navigation: once the click on a lathe's View Details   *)
(* has been handled and the page rendered, the page is the details view   *)
(* of exactly that lathe; the view is 'dashboard' or 'lathe_details'; the *)
(* details view with no selected lathe returns to the dashboard and       *)
(* fetches nothing.                                                       *)
C18_Navigation ==
    /\ view \in {"dashboard", "lathe_details"}
    /\ (click.kind = "view" /\ ~RunDue)
          => /\ view = "lathe_details"
             /\ selected_lathe = click.lathe
             /\ page.kind \in {"details", "no_data"}
             /\ page.lathe = click.lathe
    /\ \A id \in fetched : ~Falsy(id)
    /\ (view = "lathe_details" /\ Falsy(selected_lathe)) => rerun

====
